---- MODULE Spec2Model ----
(***************************************************************************)
(* A model of the NoClipSystem class of src/NoClip.js: the toggle state    *)
(* machine, the per-axis acceleration, the per-frame update and the        *)
(* freeze/collision/ground-snap calls it issues to the game world.         *)
(*                                                                         *)
(* Numbers.  The source computes in IEEE doubles; the model computes in    *)
(* fixed point.  Speeds and coordinates are integers in units of 1e-5      *)
(* (2.0 is 200000), the acceleration factor is in thousandths (1.025 is    *)
(* 1025), the speed multipliers are in hundredths (0.2 is 20) and the      *)
(* components of the camera direction are in tenths (0.6 is 6).  Products  *)
(* are truncated towards zero.                                             *)
(***************************************************************************)
EXTENDS Integers, Sequences, FiniteSets, TLC

VARIABLES
    isActive,        \* this.isActive
    camera,          \* this.camera: NoCamera (null) or a camera handle
    targetEntity,    \* this.targetEntity: NULL, Player or Vehicle
    state,           \* this.state: forward, strafe, vertical, lastUpdate
    now,             \* Date.now(), in ms since construction
    vehicle,         \* mp.players.local.vehicle: NULL or Vehicle
    vehicleHandle,   \* mp.players.local.vehicle.handle (0 = invalid)
    frozen,          \* per entity: position frozen by freezePosition
    collision,       \* per entity: the two flags given to setCollision
    position,        \* per entity: world coordinates <<x, y, z>>
    camerasCreated,  \* how many cameras mp.cameras.new has returned
    heldRun,         \* per axis: consecutive updates that drove the axis
    opLog,           \* the last two controller operations
    calls,           \* the game calls issued by the last controller operation
    localPlayer,     \* mp.players.local: Player, or NULL while there is none
    controlsHeld     \* the controls that were held during the last update

vars == <<isActive, camera, targetEntity, state, now, vehicle, vehicleHandle,
          frozen, collision, position, camerasCreated, heldRun, opLog, calls,
          localPlayer, controlsHeld>>

-----------------------------------------------------------------------------
(* Bounds of the model *)

MaxTime == 1
MaxHoldTime == 59
MaxCameras == 2

-----------------------------------------------------------------------------
(* this.config *)

baseSpeed == 200000
maxSpeed == 800000
acceleration == 1025
tickRate == 0
speedSlow == 2
speedNormal == 20
speedFast == 100

(* this.controls, without TOGGLE, which is bound to toggle() *)
Controls == {"FORWARD", "BACKWARD", "LEFT", "RIGHT", "UP", "DOWN", "FAST", "SLOW"}

NULL == "null"
Player == "player"
Vehicle == "vehicle"
Entities == {Player, Vehicle}
NoCamera == 0
Axes == {"forward", "strafe", "vertical"}

(* What the external services may answer: at most one control held, the  *)
(* camera looking upwards at an angle                                     *)
InputSets == {{}} \cup {{c} : c \in Controls}
Directions == {<<0, -6, 8>>}
GroundHeights == {0, 50000}
InitPosition == [e \in Entities |->
                   IF e = Player THEN <<0, 0, 100000>> ELSE <<300000, 0, 100000>>]

-----------------------------------------------------------------------------
(* Arithmetic *)

Abs(a) == IF a < 0 THEN -a ELSE a
Min(a, b) == IF a < b THEN a ELSE b

(* a * b / d, truncated towards zero *)
MulDiv(a, b, d) ==
    LET m == (Abs(a) * Abs(b)) \div d
    IN IF (a < 0) = (b < 0) THEN m ELSE -m

-----------------------------------------------------------------------------
(* Game calls: the function, the entity or service it is called on, its   *)
(* arguments and what it returned (<<>> when nothing is read from it)      *)

Call(f, e, a, r) == [fn |-> f, ent |-> e, args |-> a, ret |-> r]

World == [frozen |-> frozen, collision |-> collision, position |-> position]

ApplyCall(w, c) ==
    IF c.fn = "freezePosition"
    THEN [w EXCEPT !.frozen[c.ent] = c.args[1]]
    ELSE IF c.fn = "setCollision"
    THEN [w EXCEPT !.collision[c.ent] = c.args]
    ELSE IF c.fn = "setCoordsNoOffset"
    THEN [w EXCEPT !.position[c.ent] = <<c.args[1], c.args[2], c.args[3]>>]
    ELSE w

RECURSIVE ApplyCalls(_, _)
ApplyCalls(w, cs) ==
    IF cs = <<>> THEN w ELSE ApplyCalls(ApplyCall(w, Head(cs)), Tail(cs))

-----------------------------------------------------------------------------
(* Helpers of NoClipSystem *)

IsPlayerInVehicle(veh, handle) == veh # NULL /\ handle # 0

GetTargetEntity(veh, handle) ==
    IF IsPlayerInVehicle(veh, handle) THEN veh ELSE Player

(* A reset that forgets the forward axis *)
ResetStateKeepsForward(st) ==
    [st EXCEPT !.strafe = baseSpeed, !.vertical = baseSpeed]

(* A reset that leaves the vertical speed as it is *)
ResetStateKeepsVertical(st) ==
    [st EXCEPT !.forward = baseSpeed, !.strafe = baseSpeed]

ResetState(st) ==
    [st EXCEPT !.forward = baseSpeed, !.strafe = baseSpeed, !.vertical = baseSpeed]

SetEntityToGround(entity, p, groundZ) ==
    << Call("position", entity, <<>>, p),
       Call("getGroundZFor3dCoord", "gameplay", <<p[1], p[2], p[3]>>, <<groundZ>>),
       Call("setCoordsNoOffset", entity, <<p[1], p[2], groundZ>>, <<>>) >>

AccelerateAxis(s) ==
    IF s < maxSpeed THEN (s * acceleration) \div 1000 ELSE s

(* A multiplier choice that looks at the slow modifier first *)
GetCurrentSpeedSlowFirst(pressed) ==
    IF "SLOW" \in pressed THEN speedSlow
    ELSE IF "FAST" \in pressed THEN speedFast
    ELSE speedNormal

GetCurrentSpeed(pressed) ==
    IF "FAST" \in pressed THEN speedFast
    ELSE IF "SLOW" \in pressed THEN speedSlow
    ELSE speedNormal

(* The isControlPressed calls of an `if (first) ... else if (second)` *)
ControlQueries(first, second, pressed) ==
    IF first \in pressed
    THEN << Call("isControlPressed", "controls", <<first>>, <<TRUE>>) >>
    ELSE << Call("isControlPressed", "controls", <<first>>, <<FALSE>>),
            Call("isControlPressed", "controls", <<second>>, <<second \in pressed>>) >>

-----------------------------------------------------------------------------
(* Movement: a context [st, p] is this.state and the position being built *)

(* A forward step that asks for BACKWARD before FORWARD *)
HandleForwardMovementBackwardFirst(ctx, dir, speed, pressed) ==
    IF "FORWARD" \in pressed \/ "BACKWARD" \in pressed
    THEN LET s == AccelerateAxis(ctx.st.forward)
             movement == MulDiv(s, speed, 100)
             sign == IF "BACKWARD" \in pressed THEN -1 ELSE 1
         IN [st |-> [ctx.st EXCEPT !.forward = s],
             p  |-> << ctx.p[1] + sign * MulDiv(dir[1], movement, 10),
                       ctx.p[2] + sign * MulDiv(dir[2], movement, 10),
                       ctx.p[3] + sign * MulDiv(dir[3], movement, 10) >>]
    ELSE [ctx EXCEPT !.st.forward = baseSpeed]

HandleForwardMovement(ctx, dir, speed, pressed) ==
    IF "FORWARD" \in pressed
    THEN LET s == AccelerateAxis(ctx.st.forward)
             movement == MulDiv(s, speed, 100)
         IN [st |-> [ctx.st EXCEPT !.forward = s],
             p  |-> << ctx.p[1] + MulDiv(dir[1], movement, 10),
                       ctx.p[2] + MulDiv(dir[2], movement, 10),
                       ctx.p[3] + MulDiv(dir[3], movement, 10) >>]
    ELSE IF "BACKWARD" \in pressed
    THEN LET s == AccelerateAxis(ctx.st.forward)
             movement == MulDiv(s, speed, 100)
         IN [st |-> [ctx.st EXCEPT !.forward = s],
             p  |-> << ctx.p[1] - MulDiv(dir[1], movement, 10),
                       ctx.p[2] - MulDiv(dir[2], movement, 10),
                       ctx.p[3] - MulDiv(dir[3], movement, 10) >>]
    ELSE [ctx EXCEPT !.st.forward = baseSpeed]

(* A strafe step that also follows the camera's pitch *)
HandleStrafeMovementWithPitch(ctx, dir, speed, pressed) ==
    IF "LEFT" \in pressed \/ "RIGHT" \in pressed
    THEN LET s == AccelerateAxis(ctx.st.strafe)
             movement == MulDiv(s, speed, 100)
             sign == IF "LEFT" \in pressed THEN 1 ELSE -1
         IN [st |-> [ctx.st EXCEPT !.strafe = s],
             p  |-> << ctx.p[1] + sign * MulDiv(-dir[2], movement, 10),
                       ctx.p[2] + sign * MulDiv(dir[1], movement, 10),
                       ctx.p[3] + sign * MulDiv(dir[3], movement, 10) >>]
    ELSE [ctx EXCEPT !.st.strafe = baseSpeed]

HandleStrafeMovement(ctx, dir, speed, pressed) ==
    LET strafeDirection == << -dir[2], dir[1] >>
    IN IF "LEFT" \in pressed
       THEN LET s == AccelerateAxis(ctx.st.strafe)
                movement == MulDiv(s, speed, 100)
            IN [st |-> [ctx.st EXCEPT !.strafe = s],
                p  |-> << ctx.p[1] + MulDiv(strafeDirection[1], movement, 10),
                          ctx.p[2] + MulDiv(strafeDirection[2], movement, 10),
                          ctx.p[3] >>]
       ELSE IF "RIGHT" \in pressed
       THEN LET s == AccelerateAxis(ctx.st.strafe)
                movement == MulDiv(s, speed, 100)
            IN [st |-> [ctx.st EXCEPT !.strafe = s],
                p  |-> << ctx.p[1] - MulDiv(strafeDirection[1], movement, 10),
                          ctx.p[2] - MulDiv(strafeDirection[2], movement, 10),
                          ctx.p[3] >>]
       ELSE [ctx EXCEPT !.st.strafe = baseSpeed]

HandleVerticalMovement(ctx, speed, pressed) ==
    IF "UP" \in pressed
    THEN LET s == AccelerateAxis(ctx.st.vertical)
         IN [st |-> [ctx.st EXCEPT !.vertical = s],
             p  |-> << ctx.p[1], ctx.p[2], ctx.p[3] + MulDiv(s, speed, 100) >>]
    ELSE IF "DOWN" \in pressed
    THEN LET s == AccelerateAxis(ctx.st.vertical)
         IN [st |-> [ctx.st EXCEPT !.vertical = s],
             p  |-> << ctx.p[1], ctx.p[2], ctx.p[3] - MulDiv(s, speed, 100) >>]
    ELSE [ctx EXCEPT !.st.vertical = baseSpeed]

HandleMovement(ctx, dir, speed, pressed) ==
    HandleVerticalMovement(
        HandleStrafeMovement(
            HandleForwardMovement(ctx, dir, speed, pressed),
            dir, speed, pressed),
        speed, pressed)

UpdateEntityPosition(tgt, inVeh, p) ==
    << Call("setCoordsNoOffset", IF inVeh THEN tgt ELSE Player, p, <<>>) >>

(* A guard that lets a frame through when no time has passed *)
ShouldUpdateNoThrottle(active, cam, tgt, t, last) ==
    active /\ cam # NoCamera /\ tgt # NULL /\ (t - last) >= tickRate

ShouldUpdate(active, cam, tgt, t, last) ==
    active /\ cam # NoCamera /\ tgt # NULL /\ (t - last) > tickRate

(* update(): the new this.state and the calls issued, for the position p *)
(* read from the target, the camera direction dir and the clock t        *)
Update(st, tgt, inVeh, p, dir, pressed, t) ==
    LET moved == HandleMovement([st |-> st, p |-> p], dir,
                                GetCurrentSpeed(pressed), pressed)
    IN [st    |-> [moved.st EXCEPT !.lastUpdate = t],
        calls |-> ControlQueries("FAST", "SLOW", pressed)
                  \o << Call("getDirection", "camera", <<>>, dir),
                        Call("position", tgt, <<>>, p) >>
                  \o ControlQueries("FORWARD", "BACKWARD", pressed)
                  \o ControlQueries("LEFT", "RIGHT", pressed)
                  \o ControlQueries("UP", "DOWN", pressed)
                  \o UpdateEntityPosition(tgt, inVeh, moved.p)]

-----------------------------------------------------------------------------
(* enable() and disable(): the calls they issue *)

(* An enable() that freezes the target before it looks at the camera *)
EnableCallsFreezeFirst(tgt, cam, inVeh) ==
    << Call("new", "cameras", <<"gameplay">>, <<cam>>),
       Call("freezePosition", IF inVeh THEN tgt ELSE Player, <<TRUE>>, <<>>),
       Call("setCollision", IF inVeh THEN tgt ELSE Player, <<FALSE, FALSE>>, <<>>) >>

EnableCalls(tgt, cam, inVeh) ==
    << Call("new", "cameras", <<"gameplay">>, <<cam>>) >>
    \o IF cam = NoCamera THEN <<>>
       ELSE IF tgt # NULL
       THEN IF inVeh
            THEN << Call("freezePosition", tgt, <<TRUE>>, <<>>),
                    Call("setCollision", tgt, <<FALSE, FALSE>>, <<>>) >>
            ELSE << Call("freezePosition", Player, <<TRUE>>, <<>>),
                    Call("setCollision", Player, <<FALSE, FALSE>>, <<>>) >>
       ELSE <<>>

(* A disable that restores the player without looking at the target *)
DisableCallsUnguarded(tgt, inVeh, playerPos, groundZ) ==
    IF tgt # NULL /\ inVeh
    THEN << Call("freezePosition", tgt, <<FALSE>>, <<>>),
            Call("setCollision", tgt, <<TRUE, TRUE>>, <<>>) >>
    ELSE << Call("freezePosition", Player, <<FALSE>>, <<>>),
            Call("setCollision", Player, <<TRUE, TRUE>>, <<>>) >>
         \o SetEntityToGround(Player, playerPos, groundZ)

DisableCalls(tgt, inVeh, playerPos, groundZ) ==
    IF tgt # NULL
    THEN IF inVeh
         THEN << Call("freezePosition", tgt, <<FALSE>>, <<>>),
                 Call("setCollision", tgt, <<TRUE, TRUE>>, <<>>) >>
         ELSE << Call("freezePosition", Player, <<FALSE>>, <<>>),
                 Call("setCollision", Player, <<TRUE, TRUE>>, <<>>) >>
              \o SetEntityToGround(Player, playerPos, groundZ)
    ELSE <<>>

-----------------------------------------------------------------------------
(* The state after `new NoClipSystem()`: inactive, at base speed, nothing  *)
(* frozen, the player on foot                                             *)

OpRecord(o, r, pre, tgt) == [op |-> o, ran |-> r, pre |-> pre, tgt |-> tgt]

InitController ==
    /\ isActive = FALSE
    /\ camera = NoCamera
    /\ targetEntity = NULL
    /\ now = 0
    /\ state = [forward |-> baseSpeed, strafe |-> baseSpeed,
                vertical |-> baseSpeed, lastUpdate |-> 0]
    /\ vehicle = NULL
    /\ vehicleHandle = 0
    /\ frozen = [e \in Entities |-> FALSE]
    /\ collision = [e \in Entities |-> <<TRUE, TRUE>>]
    /\ position = InitPosition
    /\ camerasCreated = 0
    /\ heldRun = [a \in Axes |-> 0]
    /\ opLog = << OpRecord("init", "none", FALSE, NULL),
                  OpRecord("init", "none", FALSE, NULL) >>
    /\ calls = <<>>
    /\ controlsHeld = {}

Init == InitController /\ localPlayer = Player

-----------------------------------------------------------------------------
(* Steps shared by the operations *)

Log(rec) == opLog' = << opLog[2], rec >>

SetWorld(w) ==
    /\ frozen' = w.frozen
    /\ collision' = w.collision
    /\ position' = w.position

(* enable(), with cam the answer of mp.cameras.new *)
EnableStep(cam) ==
    LET tgt == GetTargetEntity(vehicle, vehicleHandle)
        cs  == EnableCalls(tgt, cam, IsPlayerInVehicle(vehicle, vehicleHandle))
    IN /\ targetEntity' = tgt
       /\ camera' = cam
       /\ isActive' = (cam # NoCamera)
       /\ camerasCreated' = IF cam # NoCamera THEN cam ELSE camerasCreated
       /\ SetWorld(ApplyCalls(World, cs))
       /\ calls' = cs
       /\ UNCHANGED <<state, heldRun>>

(* disable(), with groundZ the answer of getGroundZFor3dCoord; isActive is *)
(* left to the caller                                                     *)
DisableStep(groundZ) ==
    LET cs == DisableCalls(targetEntity,
                           IsPlayerInVehicle(vehicle, vehicleHandle),
                           position[Player], groundZ)
    IN /\ SetWorld(ApplyCalls(World, cs))
       /\ calls' = cs
       /\ state' = ResetState(state)
       /\ heldRun' = [a \in Axes |-> 0]
       /\ targetEntity' = NULL
       /\ camera' = NoCamera
       /\ UNCHANGED camerasCreated

Driven(axis, pressed) ==
    IF axis = "forward" THEN "FORWARD" \in pressed \/ "BACKWARD" \in pressed
    ELSE IF axis = "strafe" THEN "LEFT" \in pressed \/ "RIGHT" \in pressed
    ELSE "UP" \in pressed \/ "DOWN" \in pressed

(* One 'render' event; the update reads the held controls from one of   *)
(* inputs and the camera direction from one of dirs                      *)
RenderStep(inputs, dirs) ==
    /\ IF ShouldUpdate(isActive, camera, targetEntity, now, state.lastUpdate)
       THEN \E pressed \in inputs, dir \in dirs :
            LET u == Update(state, targetEntity,
                            IsPlayerInVehicle(vehicle, vehicleHandle),
                            position[targetEntity], dir, pressed, now)
            IN /\ state' = u.st
               /\ SetWorld(ApplyCalls(World, u.calls))
               /\ calls' = u.calls
               /\ heldRun' = [a \in Axes |->
                                IF Driven(a, pressed) THEN heldRun[a] + 1 ELSE 0]
               /\ controlsHeld' = pressed
               /\ Log(OpRecord("render", "update", isActive, targetEntity))
       ELSE /\ calls' = <<>>
            /\ controlsHeld' = {}
            /\ Log(OpRecord("render", "none", isActive, targetEntity))
            /\ UNCHANGED <<state, frozen, collision, position, heldRun>>
    /\ UNCHANGED <<isActive, camera, targetEntity, camerasCreated,
                   now, vehicle, vehicleHandle, localPlayer>>

-----------------------------------------------------------------------------
(* The operations of the controller *)

(* enable() while mp.players.local is null: getTargetEntity() calls        *)
(* isPlayerInVehicle(), whose mp.players.local.vehicle throws a TypeError; *)
(* the exception leaves toggle() after it has set isActive                 *)
EnableThrows ==
    /\ isActive' = TRUE
    /\ calls' = <<>>
    /\ UNCHANGED <<camera, targetEntity, state, frozen, collision, position,
                   camerasCreated, heldRun>>

Toggle ==
    /\ IF ~isActive
       THEN IF localPlayer = NULL
            THEN /\ EnableThrows
                 /\ Log(OpRecord("toggle", "enable_threw", isActive, NULL))
            ELSE \E cam \in {NoCamera, camerasCreated + 1} :
               /\ cam <= MaxCameras
               /\ EnableStep(cam)
               /\ Log(OpRecord("toggle",
                               IF cam # NoCamera THEN "enable" ELSE "enable_failed",
                               isActive, GetTargetEntity(vehicle, vehicleHandle)))
       ELSE \E groundZ \in GroundHeights :
               /\ DisableStep(groundZ)
               /\ isActive' = FALSE
               /\ Log(OpRecord("toggle", "disable", isActive, targetEntity))
    /\ controlsHeld' = {}
    /\ UNCHANGED <<now, vehicle, vehicleHandle, localPlayer>>

Render == RenderStep(InputSets, Directions)

Destroy ==
    /\ IF isActive
       THEN \E groundZ \in GroundHeights :
               /\ DisableStep(groundZ)
               /\ Log(OpRecord("destroy", "disable", isActive, targetEntity))
       ELSE /\ calls' = <<>>
            /\ Log(OpRecord("destroy", "none", isActive, targetEntity))
            /\ UNCHANGED <<camera, targetEntity, state, frozen, collision,
                           position, camerasCreated, heldRun>>
    /\ controlsHeld' = {}
    /\ UNCHANGED <<isActive, now, vehicle, vehicleHandle, localPlayer>>

-----------------------------------------------------------------------------
(* The game around the controller.  Entity coordinates change only through *)
(* setCoordsNoOffset.                                                      *)

AdvanceClock ==
    /\ now < MaxTime
    /\ now' = now + 1
    /\ UNCHANGED <<isActive, camera, targetEntity, state, vehicle, vehicleHandle,
                   frozen, collision, position, camerasCreated, heldRun, opLog, calls,
                   localPlayer, controlsHeld>>

EnterVehicle ==
    /\ vehicle = NULL
    /\ vehicle' = Vehicle
    /\ vehicleHandle' = 1
    /\ UNCHANGED <<isActive, camera, targetEntity, state, now,
                   frozen, collision, position, camerasCreated, heldRun, opLog, calls,
                   localPlayer, controlsHeld>>

ExitVehicle ==
    /\ vehicle # NULL
    /\ vehicle' = NULL
    /\ vehicleHandle' = 0
    /\ UNCHANGED <<isActive, camera, targetEntity, state, now,
                   frozen, collision, position, camerasCreated, heldRun, opLog, calls,
                   localPlayer, controlsHeld>>

(* The occupied vehicle loses its handle (it is no longer streamed in) *)
InvalidateVehicle ==
    /\ vehicle # NULL
    /\ vehicleHandle # 0
    /\ vehicleHandle' = 0
    /\ UNCHANGED <<isActive, camera, targetEntity, state, now, vehicle,
                   frozen, collision, position, camerasCreated, heldRun, opLog, calls,
                   localPlayer, controlsHeld>>

Next ==
    \/ Toggle
    \/ Render
    \/ Destroy
    \/ AdvanceClock
    \/ EnterVehicle
    \/ ExitVehicle
    \/ InvalidateVehicle

Spec == Init /\ [][Next]_vars

-----------------------------------------------------------------------------
(* One uninterrupted hold: the controller is enabled once, and the same    *)
(* movement controls stay held frame after frame until they are released   *)

HoldInputSets ==
    {{}} \cup {{c} : c \in Controls \ {"FAST", "SLOW"}}
         \cup {{"FORWARD", "FAST"}, {"LEFT", "UP", "SLOW"}}
HoldDirections == {<<10, 0, 0>>}

(* pressed is what the last update was answered, or a release, or the     *)
(* first controls held since construction                                 *)
HoldContinues(pressed) ==
    \/ pressed = {}
    \/ /\ position = InitPosition
       /\ \A a \in Axes : heldRun[a] = 0
    \/ /\ opLog[2].ran = "update"
       /\ \A i \in 1..Len(calls) :
              calls[i].fn = "isControlPressed"
                 => calls[i].ret[1] = (calls[i].args[1] \in pressed)

ToggleOn == ~isActive /\ Toggle

RenderHold ==
    \E pressed \in HoldInputSets, dir \in HoldDirections :
       HoldContinues(pressed) /\ RenderStep({pressed}, {dir})

AdvanceClockHold ==
    /\ now < MaxHoldTime
    /\ now = state.lastUpdate
    /\ now' = now + 1
    /\ UNCHANGED <<isActive, camera, targetEntity, state, vehicle, vehicleHandle,
                   frozen, collision, position, camerasCreated, heldRun, opLog, calls,
                   localPlayer, controlsHeld>>

NextHold ==
    \/ ToggleOn
    \/ RenderHold
    \/ AdvanceClockHold

SpecHold == Init /\ [][NextHold]_vars

-----------------------------------------------------------------------------
(* Updates with any combination of controls held and the camera looking    *)
(* level along a diagonal or pitched up                                    *)

MoveDirections == {<<6, 8, 0>>, <<0, -6, 8>>}

RenderMove == RenderStep(SUBSET Controls, MoveDirections)

NextMove ==
    \/ ToggleOn
    \/ RenderMove
    \/ AdvanceClock

SpecMove == Init /\ [][NextMove]_vars

-----------------------------------------------------------------------------
(* The script is loaded before the game has a local player: toggle() and   *)
(* the other operations run while mp.players.local is still null, and the  *)
(* player arrives later                                                    *)

InitNoPlayer == InitController /\ localPlayer = NULL

PlayerArrives ==
    /\ localPlayer = NULL
    /\ localPlayer' = Player
    /\ UNCHANGED <<isActive, camera, targetEntity, state, now, vehicle, vehicleHandle,
                   frozen, collision, position, camerasCreated, heldRun, opLog, calls,
                   controlsHeld>>

NextNoPlayer ==
    \/ Toggle
    \/ Render
    \/ Destroy
    \/ AdvanceClock
    \/ PlayerArrives

SpecNoPlayer == InitNoPlayer /\ [][NextNoPlayer]_vars

-----------------------------------------------------------------------------
(* Properties *)

LastOp == opLog[2]
PrevOp == opLog[1]

CallsOf(fns) == {i \in 1..Len(calls) : calls[i].fn \in fns}

BaseSpeeds ==
    /\ state.forward = baseSpeed
    /\ state.strafe = baseSpeed
    /\ state.vertical = baseSpeed

(* baseSpeed * acceleration^n, multiplied out step by step *)
RECURSIVE HeldSpeed(_)
HeldSpeed(n) ==
    IF n = 0 THEN baseSpeed ELSE (HeldSpeed(n - 1) * acceleration) \div 1000

(* C1: after toggle() has run disable() on a session, the entity that      *)
(* enable() resolved as the target and froze is unfrozen and has both      *)
(* collision flags set again.                                              *)
C1_DisableRestoresTarget ==
    (LastOp.op = "toggle" /\ LastOp.ran = "disable" /\ LastOp.tgt # NULL)
        => /\ ~frozen[LastOp.tgt]
           /\ collision[LastOp.tgt] = <<TRUE, TRUE>>

(* C2: while the controller is active, every axis speed lies between       *)
(* baseSpeed and maxSpeed.                                                 *)
C2_SpeedsWithinBounds ==
    isActive => \A a \in Axes : baseSpeed <= state[a] /\ state[a] <= maxSpeed

(* C3: an axis driven for N consecutive updates has speed                  *)
(* min(baseSpeed * acceleration^N, maxSpeed), and an axis that the last    *)
(* update did not drive (N = 0) has speed baseSpeed.                       *)
C3_SpeedAfterHold ==
    \A a \in Axes : state[a] = Min(HeldSpeed(heldRun[a]), maxSpeed)

(* C4: when mp.cameras.new fails in enable(), isActive is false afterwards *)
(* and enable() has issued no freezePosition and no setCollision call.     *)
C4_CameraFailureLeavesEntitiesAlone ==
    LastOp.ran = "enable_failed"
        => /\ ~isActive
           /\ CallsOf({"freezePosition", "setCollision"}) = {}

C4_Witness ==
    /\ LastOp.ran = "enable_failed"
    /\ targetEntity = Vehicle
    /\ calls # <<>>

(* C5, as claimed: after two toggle() calls in a row isActive has the      *)
(* value it had before the first, and all axis speeds are baseSpeed,       *)
(* whatever mp.cameras.new answered.                                       *)
C5_DoubleToggleRestores ==
    (PrevOp.op = "toggle" /\ LastOp.op = "toggle")
        => isActive = PrevOp.pre /\ BaseSpeeds

(* C5, amended: after two toggle() calls in a row all axis speeds are      *)
(* baseSpeed, and isActive has the value it had before the first provided  *)
(* that neither call ran an enable() whose camera acquisition failed.      *)
C5_DoubleToggleRestoresUnlessCameraFails ==
    (PrevOp.op = "toggle" /\ LastOp.op = "toggle")
        => /\ BaseSpeeds
           /\ (PrevOp.ran # "enable_failed" /\ LastOp.ran # "enable_failed")
                 => isActive = PrevOp.pre

C5_Witness ==
    /\ PrevOp.op = "toggle" /\ PrevOp.ran = "disable" /\ PrevOp.pre
    /\ LastOp.op = "toggle" /\ LastOp.ran = "enable"
    /\ isActive
    /\ state.lastUpdate > 0

(* C6: between operations, the camera is present iff isActive, and the     *)
(* target is present iff isActive.                                         *)
C6_HandlesPresentIffActive ==
    /\ (camera # NoCamera) <=> isActive
    /\ (targetEntity # NULL) <=> isActive

(* C7: a disable() of a session whose target is the bare player issues     *)
(* exactly one ground-height query and exactly one position write, which   *)
(* puts the player at its own x and y and at the returned ground height.   *)
C7_BarePlayerDisableSnapsToGround ==
    (LastOp.ran = "disable" /\ LastOp.tgt = Player)
        => /\ Cardinality(CallsOf({"getGroundZFor3dCoord"})) = 1
           /\ Cardinality(CallsOf({"setCoordsNoOffset"})) = 1
           /\ \A q \in CallsOf({"getGroundZFor3dCoord"}),
                 w \in CallsOf({"setCoordsNoOffset"}) :
                 /\ calls[w].ent = Player
                 /\ calls[w].args[1] = calls[q].args[1]
                 /\ calls[w].args[2] = calls[q].args[2]
                 /\ calls[w].args[3] = calls[q].ret[1]
                 /\ position[Player] = calls[w].args

(* C8: a disable() of a session whose target is the vehicle issues no      *)
(* ground-height query and no position write.                              *)
C8_VehicleDisableNoGroundSnap ==
    (LastOp.ran = "disable" /\ LastOp.tgt = Vehicle)
        => CallsOf({"getGroundZFor3dCoord", "setCoordsNoOffset"}) = {}

(* C9: a render callback changes the controller and the entities only in   *)
(* a frame where isActive holds, camera and target are present and more    *)
(* than tickRate ms have passed since state.lastUpdate; in every other     *)
(* frame it changes nothing.                                               *)
C9_UpdateOnlyWhenDue ==
    [][ Render =>
           \/ /\ isActive
              /\ camera # NoCamera
              /\ targetEntity # NULL
              /\ now - state.lastUpdate > tickRate
           \/ UNCHANGED <<isActive, camera, targetEntity, state,
                          frozen, collision, position>> ]_vars

C9_Witness ==
    /\ LastOp.op = "render" /\ LastOp.ran = "none"
    /\ PrevOp.op = "render" /\ PrevOp.ran = "update"
    /\ isActive /\ camera # NoCamera /\ targetEntity # NULL

(* C10: every position read and every position write of an update()       *)
(* addresses the entity that enable() resolved as the target.              *)
C10_UpdateAddressesCachedTarget ==
    LastOp.ran = "update"
        => \A i \in CallsOf({"position", "setCoordsNoOffset"}) :
              calls[i].ent = LastOp.tgt

(* C11: when the target resolution of enable() yields no entity, isActive  *)
(* is false after the enable attempt and no freezePosition or setCollision *)
(* call has been issued.                                                   *)
C11_NullTargetAbortsEnable ==
    (LastOp.op = "toggle" /\ ~LastOp.pre /\ targetEntity = NULL)
        => /\ ~isActive
           /\ CallsOf({"freezePosition", "setCollision"}) = {}

(* C12: the disable() that ends a session releases the session's camera:   *)
(* it issues exactly one call that destroys the camera.                    *)
C12_DisableReleasesCamera ==
    (LastOp.ran = "disable" /\ LastOp.tgt # NULL)
        => Cardinality({i \in CallsOf({"destroy"}) : calls[i].ent = "camera"}) = 1

(* C17: after destroy() on an active controller, isActive is false and     *)
(* camera and target are absent.                                           *)
C17_DestroyDeactivates ==
    (LastOp.op = "destroy" /\ LastOp.pre)
        => /\ ~isActive
           /\ camera = NoCamera
           /\ targetEntity = NULL

(* The multiplier, camera direction and positions of the last update *)
HeldMultiplier ==
    IF "FAST" \in controlsHeld THEN speedFast
    ELSE IF "SLOW" \in controlsHeld THEN speedSlow
    ELSE speedNormal

LastDirection == calls[CHOOSE i \in CallsOf({"getDirection"}) : TRUE].ret
LastRead == calls[CHOOSE i \in CallsOf({"position"}) : TRUE].ret
LastWrite == calls[CHOOSE i \in CallsOf({"setCoordsNoOffset"}) : TRUE].args

(* Only the forward axis has been driven, by every update of this hold *)
HoldingForward ==
    /\ isActive
    /\ LastOp.ran = "update"
    /\ heldRun.forward > 0
    /\ heldRun.strafe = 0
    /\ heldRun.vertical = 0

(* Component d of the direction times the sum, over k driven updates, of   *)
(* min(s * acceleration^i, maxSpeed) * mult for i = 0 .. k-1               *)
RECURSIVE TotalClaimed(_, _, _, _)
TotalClaimed(k, s, mult, d) ==
    IF k = 0 THEN 0
    ELSE MulDiv(d, MulDiv(Min(s, maxSpeed), mult, 100), 10)
         + TotalClaimed(k - 1, (s * acceleration) \div 1000, mult, d)

HoldSign == IF "FORWARD" \in controlsHeld THEN 1 ELSE -1

(* C13: after K updates of a fresh session that all drove the             *)
(* forward axis, the target has moved along the camera direction by the    *)
(* sum over i = 0 .. K-1 of min(baseSpeed * acceleration^i, maxSpeed)      *)
(* times the speed multiplier.                                             *)
C13_HoldDisplacement ==
    HoldingForward
        => \A c \in 1..3 :
              position[LastOp.tgt][c] - InitPosition[LastOp.tgt][c]
                 = HoldSign * TotalClaimed(heldRun.forward, baseSpeed,
                                           HeldMultiplier, LastDirection[c])

(* The step of an axis: +1 for the first control of its pair, -1 for the  *)
(* second when the first is not held, 0 when neither is held              *)
AxisSign(held, first, second) ==
    IF first \in held THEN 1 ELSE IF second \in held THEN -1 ELSE 0

(* The position reached from p when the axes move at the speeds of st,     *)
(* scaled by m, along camera direction d                                   *)
MovedFrom(p, st, held, d, m) ==
    LET fwd == MulDiv(st.forward, m, 100)
        str == MulDiv(st.strafe, m, 100)
        ver == MulDiv(st.vertical, m, 100)
        fs == AxisSign(held, "FORWARD", "BACKWARD")
        ss == AxisSign(held, "LEFT", "RIGHT")
        vs == AxisSign(held, "UP", "DOWN")
    IN << p[1] + fs * MulDiv(d[1], fwd, 10) + ss * MulDiv(-d[2], str, 10),
          p[2] + fs * MulDiv(d[2], fwd, 10) + ss * MulDiv(d[1], str, 10),
          p[3] + fs * MulDiv(d[3], fwd, 10) + vs * ver >>

UpdateStep ==
    /\ now' = now
    /\ opLog'[2].op = "render"
    /\ opLog'[2].ran = "update"

OpposingPairs ==
    { <<"forward", "FORWARD", "BACKWARD">>,
      <<"strafe", "LEFT", "RIGHT">>,
      <<"vertical", "UP", "DOWN">> }

(* C14: an update with both controls of an axis held accelerates that axis *)
(* exactly once and moves the target only in the direction of the first    *)
(* control of the pair (forward, left, up).                                 *)
C14_OpposingInputsPriority ==
    [][UpdateStep =>
         \A pr \in OpposingPairs :
            {pr[2], pr[3]} \subseteq controlsHeld'
               => /\ state'[pr[1]] = AccelerateAxis(state[pr[1]])
                  /\ position'[targetEntity]
                        = MovedFrom(position[targetEntity], state',
                                    controlsHeld' \ {pr[3]},
                                    LastDirection', HeldMultiplier')]_vars

C14_Witness ==
    /\ LastOp.ran = "update"
    /\ {"FORWARD", "BACKWARD", "LEFT", "RIGHT", "UP", "DOWN"} \subseteq controlsHeld
    /\ LastDirection = <<6, 8, 0>>
    /\ LastWrite # LastRead

(* C15: an update with only strafe controls held writes the z it read, and *)
(* an update with only vertical controls held writes the x and y it read,  *)
(* whatever the camera direction.                                          *)
C15_StrafeAndVerticalFrames ==
    LastOp.ran = "update"
        => /\ ( /\ controlsHeld \cap {"LEFT", "RIGHT"} # {}
                /\ controlsHeld \cap {"FORWARD", "BACKWARD", "UP", "DOWN"} = {} )
              => LastWrite[3] = LastRead[3]
           /\ ( /\ controlsHeld \cap {"UP", "DOWN"} # {}
                /\ controlsHeld \cap {"FORWARD", "BACKWARD", "LEFT", "RIGHT"} = {} )
              => (LastWrite[1] = LastRead[1] /\ LastWrite[2] = LastRead[2])

C15_Witness ==
    /\ LastOp.ran = "update"
    /\ controlsHeld = {"LEFT"}
    /\ LastDirection = <<0, -6, 8>>
    /\ LastWrite[1] # LastRead[1]

(* C16: right after a successful enable(), and whenever the controller is  *)
(* inactive, all three axis speeds are baseSpeed.                          *)
C16_BaseSpeedsBetweenSessions ==
    /\ ~isActive => BaseSpeeds
    /\ LastOp.ran = "enable" => BaseSpeeds

C16_Witness ==
    /\ PrevOp.ran = "disable"
    /\ LastOp.ran = "enable"
    /\ position[Player][3] # InitPosition[Player][3]
    /\ state.lastUpdate > 0
    /\ BaseSpeeds

(* C18: a disable() that runs after another disable() with no successful   *)
(* enable() in between (the target is already cleared when it starts)      *)
(* issues no freeze, collision, ground-height or position-write call.      *)
C18_SecondDisableTouchesNothing ==
    (LastOp.ran = "disable" /\ (PrevOp.ran = "disable" \/ LastOp.tgt = NULL))
        => CallsOf({"freezePosition", "setCollision",
                    "getGroundZFor3dCoord", "setCoordsNoOffset"}) = {}

C18_Witness ==
    /\ PrevOp.op = "destroy" /\ PrevOp.ran = "disable" /\ PrevOp.tgt # NULL
    /\ LastOp.op = "toggle" /\ LastOp.ran = "disable"
    /\ ~isActive

(* C19: an update moves every axis by its speed times one multiplier:      *)
(* speedFast when FAST is held (with or without SLOW), speedSlow when only *)
(* SLOW is held, speedNormal when neither is held.                         *)
C19_MultiplierPriority ==
    LastOp.ran = "update"
        => LET m == IF "FAST" \in controlsHeld THEN speedFast
                    ELSE IF "SLOW" \in controlsHeld THEN speedSlow
                    ELSE speedNormal
           IN LastWrite = MovedFrom(LastRead, state, controlsHeld,
                                    LastDirection, m)

C19_Witness ==
    /\ LastOp.ran = "update"
    /\ {"FAST", "SLOW", "FORWARD", "LEFT", "UP"} \subseteq controlsHeld
    /\ LastDirection = <<0, -6, 8>>
    /\ LastWrite[3] = LastRead[3] + speedFast * 2050 + (8 * speedFast * 2050) \div 10

====
